---------------------------- MODULE Spec2Model ----------------------------
(***************************************************************************)
(* Noughts and crosses by exhaustive enumeration                           *)
(* (src/notebooks/noughts_and_crosses.ipynb).                              *)
(*                                                                         *)
(* A game state is the notebook's 9-character string over "0", "1", "2".   *)
(* It is modelled as the number that string denotes in base 3, keeping the *)
(* nine digits: game_state[i] is the digit at position i counted from the  *)
(* left, i in 0..8, as in the code.  Board(n) writes a game state the way  *)
(* the notebook prints it: Board(120120100) is "120120100" and Board(10002)*)
(* is "000010002".  A game is a sequence of game states and possible_games *)
(* a sequence of games, in the order the code appends them.                *)
(*                                                                         *)
(* The notebook reads no input: possible_games after a round is a function *)
(* of the number of rounds run.  The list grows to 255,168 games of up to  *)
(* ten game states, so a state carries game_round and possible_games is    *)
(* the state function "the list after game_round rounds", computed round   *)
(* by round as the loop of cell 4 computes it.                             *)
(***************************************************************************)
EXTENDS Integers, Sequences, FiniteSets, TLC

VARIABLES
    pc,                  \* which step of the notebook has run last
    game_round,          \* number of rounds of cell 4 that have run
    num_player_1_wins,   \* cell 6
    num_player_2_wins,
    num_draws,
    asked_state,         \* argument of the last next_best_move call
    best_move,           \* its outcome: [status, move]
    current_state,       \* self-play, cell 10
    play_round,
    winner,
    rule_state,          \* argument of a direct call of a rules function
    rule_moves,          \* result of get_possible_moves(rule_state)
    rule_player,         \* second argument of winning_state
    rule_won             \* result of winning_state(rule_state, rule_player)

vars == <<pc, game_round, num_player_1_wins, num_player_2_wins, num_draws,
          asked_state, best_move, current_state, play_round, winner,
          rule_state, rule_moves, rule_player, rule_won>>

-----------------------------------------------------------------------------
(* Game states as 9-digit numbers in base 3 *)

NumCells == 9

CellIndex == 0..(NumCells - 1)

PowersOfThree == <<1, 3, 9, 27, 81, 243, 729, 2187, 6561, 19683>>

Pow3(k) == PowersOfThree[k + 1]

NumBoards == Pow3(NumCells)

\* every 9-character string over "0", "1", "2"
AllBoards == 0..(NumBoards - 1)

\* the game state that the notebook prints as the decimal numeral n
RECURSIVE Board(_)
Board(n) == IF n = 0 THEN 0 ELSE 3 * Board(n \div 10) + (n % 10)

EmptyBoard == Board(0)

\* game_state[i]
Cell(game_state, i) == (game_state \div Pow3(NumCells - 1 - i)) % 3

\* game_state[:i] + mark + game_state[i+1:]
SetCell(game_state, i, mark) ==
    game_state + (mark - Cell(game_state, i)) * Pow3(NumCells - 1 - i)

-----------------------------------------------------------------------------
(* Rules: cells 2 and 3 *)

winning_state_rows_only(game_state, player) ==
    LET c(i) == Cell(game_state, i)
    IN
    \/ c(0) = c(1) /\ c(1) = c(2) /\ c(2) = player
    \/ c(3) = c(4) /\ c(4) = c(5) /\ c(5) = player
    \/ c(6) = c(7) /\ c(7) = c(8) /\ c(8) = player

winning_state(game_state, player) ==
    LET c(i) == Cell(game_state, i)
    IN
    \* check rows
    \/ c(0) = c(1) /\ c(1) = c(2) /\ c(2) = player
    \/ c(3) = c(4) /\ c(4) = c(5) /\ c(5) = player
    \/ c(6) = c(7) /\ c(7) = c(8) /\ c(8) = player
    \* check columns
    \/ c(0) = c(3) /\ c(3) = c(6) /\ c(6) = player
    \/ c(1) = c(4) /\ c(4) = c(7) /\ c(7) = player
    \/ c(2) = c(5) /\ c(5) = c(8) /\ c(8) = player
    \* check diagonals
    \/ c(0) = c(4) /\ c(4) = c(8) /\ c(8) = player
    \/ c(2) = c(4) /\ c(4) = c(6) /\ c(6) = player

\* game_state.count(mark)
Count(game_state, mark) == Cardinality({i \in CellIndex : Cell(game_state, i) = mark})

current_player_strict(game_state) ==
    IF Count(game_state, 1) < Count(game_state, 2) THEN 1 ELSE 2

current_player_always_one(game_state) == 1

current_player(game_state) ==
    IF Count(game_state, 1) <= Count(game_state, 2) THEN 1 ELSE 2

\* The loop of get_possible_moves from index i on; player is
\* current_player(game_state), which the code evaluates at each append.
RECURSIVE MovesFrom(_, _, _)
MovesFrom(game_state, player, i) ==
    IF i >= NumCells THEN <<>>
    ELSE (IF Cell(game_state, i) = 0
          THEN <<SetCell(game_state, i, player)>>
          ELSE <<>>) \o MovesFrom(game_state, player, i + 1)

get_possible_moves_none_when_won(game_state) ==
    IF winning_state(game_state, 1) \/ winning_state(game_state, 2)
    THEN <<>>
    ELSE MovesFrom(game_state, current_player(game_state), 0)

get_possible_moves_descending(game_state) ==
    [k \in 1..Len(MovesFrom(game_state, current_player(game_state), 0)) |->
        MovesFrom(game_state, current_player(game_state), 0)
            [Len(MovesFrom(game_state, current_player(game_state), 0)) + 1 - k]]

get_possible_moves(game_state) ==
    MovesFrom(game_state, current_player(game_state), 0)

\* The three functions are pure and the enumeration applies them about a
\* million times, so each is tabulated once over all game states; the
\* steps below read the tables.  Entry game_state + 1 belongs to game_state.
winning_state_table ==
    [player \in 1..2 |->
        [c \in 1..NumBoards |-> winning_state(c - 1, player)] \o <<>>]

current_player_table ==
    [c \in 1..NumBoards |-> current_player(c - 1)] \o <<>>

possible_moves_table ==
    [c \in 1..NumBoards |-> get_possible_moves(c - 1)] \o <<>>

IsWinningState(game_state, player) == winning_state_table[player][game_state + 1]

CurrentPlayer(game_state) == current_player_table[game_state + 1]

PossibleMoves(game_state) == possible_moves_table[game_state + 1]

-----------------------------------------------------------------------------
(* Enumerator: cell 4 *)

Last(game) == game[Len(game)]

\* one new game per move: new_game = game.copy(); new_game.append(move)
Extend(game, moves) == [k \in 1..Len(moves) |-> Append(game, moves[k])]

Rounds_one_short == NumCells - 1

\* for round in range(9)
Rounds == 9

\* what one iteration of "for game in possible_games" appends to
\* new_possible_games
ExpandGame_drop_won(game) ==
    IF IsWinningState(Last(game), 1) \/ IsWinningState(Last(game), 2)
    THEN <<>>
    ELSE Extend(game, PossibleMoves(Last(game)))

ExpandGame_repeat_last(game) ==
    IF IsWinningState(Last(game), 1) \/ IsWinningState(Last(game), 2)
    THEN <<Append(game, Last(game))>>
    ELSE Extend(game, PossibleMoves(Last(game)))

ExpandGame_freeze_p1_only(game) ==
    IF IsWinningState(Last(game), 1)
    THEN <<game>>
    ELSE Extend(game, PossibleMoves(Last(game)))

ExpandGame(game) ==
    IF IsWinningState(Last(game), 1) \/ IsWinningState(Last(game), 2)
    THEN <<game>>
    ELSE Extend(game, PossibleMoves(Last(game)))

\* new_possible_games after the iterations lo..hi of the inner loop
RECURSIVE ExpandRange(_, _, _)
ExpandRange(games, lo, hi) ==
    IF lo > hi THEN <<>>
    ELSE IF lo = hi THEN ExpandGame(games[lo])
    ELSE ExpandRange(games, lo, (lo + hi) \div 2)
            \o ExpandRange(games, ((lo + hi) \div 2) + 1, hi)

\* The assignment "possible_games = new_possible_games" is inside the inner
\* loop, after the "continue": it runs in an iteration whose game is not won,
\* and binds the list that the remaining iterations keep appending to.
Reassigned(games) ==
    \E k \in 1..Len(games) :
        ~(IsWinningState(Last(games[k]), 1) \/ IsWinningState(Last(games[k]), 2))

\* possible_games after one round of "for round in range(9)"
ExpandRound_list(games) ==
    IF Reassigned(games) THEN ExpandRange(games, 1, Len(games)) ELSE games

\* possible_games after each of the rounds r, r + 1, ..., Rounds, where games
\* is the list after round r
RECURSIVE RoundsFrom(_, _)
RoundsFrom(games, r) ==
    IF r >= Rounds THEN <<games>>
    ELSE <<games>> \o RoundsFrom(ExpandRound_list(games), r + 1)

\* possible_games = [["000000000"]] before the loop
possible_games_after == RoundsFrom(<< <<EmptyBoard>> >>, 0)

possible_games == possible_games_after[game_round + 1]

-----------------------------------------------------------------------------
(* Analysis: cell 6 *)

game_outcome_swapped(game_path) ==
    IF IsWinningState(Last(game_path), 1) THEN "player 2 wins"
    ELSE IF IsWinningState(Last(game_path), 2) THEN "player 1 wins"
    ELSE "draw"

game_outcome(game_path) ==
    IF IsWinningState(Last(game_path), 1) THEN "player 1 wins"
    ELSE IF IsWinningState(Last(game_path), 2) THEN "player 2 wins"
    ELSE "draw"

\* sum(game_outcome(game) == outcome for game in possible_games)
NumOutcomes(games, outcome) ==
    Cardinality({k \in 1..Len(games) : game_outcome(games[k]) = outcome})

-----------------------------------------------------------------------------
(* Aggregator: cell 7 *)

\* possible_games when cell 7 runs
enumerated_games == possible_games_after[Rounds + 1]

\* The first loop of cell 7 updates the three Counters.  While the loop runs
\* they are tallies[1], [2] and [3] for p1_win_counter, p2_win_counter and
\* draw_counter: each a table with an entry per game state, 0 for a key the
\* Counter does not hold.  A table has three levels of Side entries, so that
\* an update copies three short rows; KeyHigh, KeyMid and KeyLow give the
\* place of a game state on each level.
Side == Pow3(3)

KeyHigh == [c \in 1..NumBoards |-> ((c - 1) \div (Side * Side)) + 1] \o <<>>

KeyMid == [c \in 1..NumBoards |-> (((c - 1) \div Side) % Side) + 1] \o <<>>

KeyLow == [c \in 1..NumBoards |-> ((c - 1) % Side) + 1] \o <<>>

Table(v) ==
    [h \in 1..Side |-> [m \in 1..Side |-> [l \in 1..Side |-> v] \o <<>>] \o <<>>] \o <<>>

EmptyTallies == <<Table(0), Table(0), Table(0)>>

Entry(table, game_state) ==
    table[KeyHigh[game_state + 1]][KeyMid[game_state + 1]][KeyLow[game_state + 1]]

\* the Counter that the if / elif / else of the loop body updates
CounterOf(game) ==
    IF game_outcome(game) = "player 1 wins" THEN 1
    ELSE IF game_outcome(game) = "player 2 wins" THEN 2
    ELSE 3

\* counter.update(game) for the first k game states of the game: one is
\* added to the Counter's entry of each.  The additions commute, and they
\* are made from the k-th game state down to the first.
RECURSIVE TallyGameFrom(_, _, _, _)
TallyGameFrom(tallies, game, k, counter) ==
    IF k = 0 THEN tallies
    ELSE TallyGameFrom(
            [tallies EXCEPT
                ![counter][KeyHigh[game[k] + 1]][KeyMid[game[k] + 1]][KeyLow[game[k] + 1]] = @ + 1],
            game, k - 1, counter)

TallyGame_skip_final(tallies, game) ==
    TallyGameFrom(tallies, game, Len(game) - 1, CounterOf(game))

\* the body of "for game in possible_games"
TallyGame(tallies, game) ==
    TallyGameFrom(tallies, game, Len(game), CounterOf(game))

\* "for game in possible_games", games lo..hi in list order.  The tables after
\* the first half are bound as a value before the second half starts; passed
\* on as an expression they would be evaluated only at the end, one
\* evaluation nested in the next for every game.
RECURSIVE TallyGames(_, _, _)
TallyGames(tallies, lo, hi) ==
    IF lo > hi THEN tallies
    ELSE IF lo = hi THEN TallyGame(tallies, enumerated_games[lo])
    ELSE CHOOSE t \in {TallyGames(first, ((lo + hi) \div 2) + 1, hi) :
                          first \in {TallyGames(tallies, lo, (lo + hi) \div 2)}} : TRUE

tallies_after == TallyGames(EmptyTallies, 1, Len(enumerated_games))

\* the Counter held in a table: its keys are the game states updated
CounterFrom(table) ==
    [gs \in {b \in AllBoards : Entry(table, b) > 0} |-> Entry(table, gs)]

\* p1_win_counter, p2_win_counter and draw_counter after the first loop
CountersFrom(tallies) ==
    <<CounterFrom(tallies[1]), CounterFrom(tallies[2]), CounterFrom(tallies[3])>>

counters_after == CountersFrom(tallies_after)

\* interim_states after the first loop.  An iteration of the loop adds the
\* game states of the game to interim_states and to one of the Counters, so
\* the set holds the game states that are a key of some Counter.
InterimStatesFrom(tallies) ==
    {gs \in AllBoards :
        Entry(tallies[1], gs) + Entry(tallies[2], gs) + Entry(tallies[3], gs) > 0}

interim_states_after == InterimStatesFrom(tallies_after)

\* counter[game_state]: a Counter reads 0 for a key it does not hold
CounterGet(counter, game_state) ==
    IF game_state \in DOMAIN counter THEN counter[game_state] ELSE 0

\* the quotient and remainder of n * 10^k by d, one decimal place at a time
RECURSIVE Scaled(_, _, _)
Scaled(n, d, k) ==
    IF k = 0 THEN <<n \div d, n % d>>
    ELSE LET s == Scaled(n, d, k - 1)
         IN  <<10 * s[1] + ((10 * s[2]) \div d), (10 * s[2]) % d>>

NumDecimals == 5

\* round(n / d, 5), as a multiple of 10^-5.  The quotient is rounded to the
\* nearest multiple; a quotient exactly half way between two multiples goes
\* to the even one.
round(n, d) ==
    LET s == Scaled(n, d, NumDecimals)
    IN  IF 2 * s[2] > d THEN s[1] + 1
        ELSE IF 2 * s[2] < d THEN s[1]
        ELSE IF s[1] % 2 = 0 THEN s[1] ELSE s[1] + 1

\* num_final_outcomes of the second loop
NumFinalOutcomesIn(counters, game_state) ==
    CounterGet(counters[1], game_state)
        + CounterGet(counters[2], game_state)
        + CounterGet(counters[3], game_state)

num_final_outcomes(game_state) == NumFinalOutcomesIn(counters_after, game_state)

\* the dict that the second loop stores for a game state, from the three
\* Counters
ProbabilitiesIn(counters, game_state) ==
    [p1_wins |-> round(CounterGet(counters[1], game_state),
                       NumFinalOutcomesIn(counters, game_state)),
     p2_wins |-> round(CounterGet(counters[2], game_state),
                       NumFinalOutcomesIn(counters, game_state)),
     draw    |-> round(CounterGet(counters[3], game_state),
                       NumFinalOutcomesIn(counters, game_state))]

Probabilities(game_state) == ProbabilitiesIn(counters_after, game_state)

\* a division by zero in the second loop
ZeroDivision == \E gs \in interim_states_after : num_final_outcomes(gs) = 0

\* outcome_probabilities after the second loop
outcome_probabilities_after ==
    [gs \in interim_states_after |-> Probabilities(gs)]

\* the game states the third loop does not skip
DatabaseKeys_skip_p2_only(states) == {gs \in states : ~IsWinningState(gs, 2)}

DatabaseKeys(states) ==
    {gs \in states : ~(IsWinningState(gs, 1) \/ IsWinningState(gs, 2))}

PossibleMovesData_all_but_last(game_state) ==
    [k \in 1..(Len(PossibleMoves(game_state)) - 1) |->
        [move |-> PossibleMoves(game_state)[k],
         data |-> outcome_probabilities_after[PossibleMoves(game_state)[k]]]]

\* possible_moves_data: a dict in insertion order, as a sequence of items
PossibleMovesData(game_state) ==
    [k \in 1..Len(PossibleMoves(game_state)) |->
        [move |-> PossibleMoves(game_state)[k],
         data |-> outcome_probabilities_after[PossibleMoves(game_state)[k]]]]

\* outcome_probabilities[possible_move] raises KeyError
MissingMove(game_state) ==
    \E k \in 1..Len(PossibleMoves(game_state)) :
        PossibleMoves(game_state)[k] \notin interim_states_after

\* a KeyError in the third loop
MissingLookup == \E gs \in DatabaseKeys(interim_states_after) : MissingMove(gs)

\* ai_player_database after the third loop
ai_player_database_after ==
    [gs \in DatabaseKeys(interim_states_after) |-> PossibleMovesData(gs)]

\* Cell 7 works on the whole of possible_games and reads no input, so what it
\* leaves behind is the same in every run.  A state carries pc, and the
\* collections of cell 7 are state functions: empty until the loop that
\* fills them has run, and what that loop computes from then on.
Counted ==
    pc \in {"counted", "probabilities", "database", "advised", "playing",
            "played", "ZeroDivisionError", "KeyError", "play failed"}

WithProbabilities ==
    pc \in {"probabilities", "database", "advised", "playing", "played",
            "KeyError", "play failed"}

WithDatabase ==
    pc \in {"database", "advised", "playing", "played", "play failed"}

p1_win_counter == IF Counted THEN counters_after[1] ELSE <<>>

p2_win_counter == IF Counted THEN counters_after[2] ELSE <<>>

draw_counter == IF Counted THEN counters_after[3] ELSE <<>>

interim_states == IF Counted THEN interim_states_after ELSE {}

outcome_probabilities ==
    IF WithProbabilities THEN outcome_probabilities_after ELSE <<>>

\* after a KeyError the dict holds the entries made before it; no step reads
\* them, and they are left out
ai_player_database ==
    IF WithDatabase THEN ai_player_database_after ELSE <<>>

-----------------------------------------------------------------------------
(* Advisor: cell 9 *)

\* move_data[data_key], data_key = f"p{player}_wins"
WinProbability(move_data, player) ==
    IF player = 1 THEN move_data.p1_wins ELSE move_data.p2_wins

moves_and_probs_opponent(possible_move_data, player) ==
    [k \in 1..Len(possible_move_data) |->
        <<possible_move_data[k].move,
          WinProbability(possible_move_data[k].data, 3 - player)>>]

\* moves_and_probs: one (move, probability) pair per item of the dict
moves_and_probs(possible_move_data, player) ==
    [k \in 1..Len(possible_move_data) |->
        <<possible_move_data[k].move,
          WinProbability(possible_move_data[k].data, player)>>]

\* where a pair goes among the sorted pairs that were before it in the list
InsertLast_before_equals(pairs, e) ==
    SubSeq(pairs, 1, Cardinality({k \in 1..Len(pairs) : pairs[k][2] < e[2]}))
        \o <<e>>
        \o SubSeq(pairs, Cardinality({k \in 1..Len(pairs) : pairs[k][2] < e[2]}) + 1, Len(pairs))

\* sorted() is stable: a pair goes after the earlier pairs with an equal key
InsertLast(pairs, e) ==
    SubSeq(pairs, 1, Cardinality({k \in 1..Len(pairs) : pairs[k][2] <= e[2]}))
        \o <<e>>
        \o SubSeq(pairs, Cardinality({k \in 1..Len(pairs) : pairs[k][2] <= e[2]}) + 1, Len(pairs))

\* sorted(moves_and_probs, key=lambda e: e[1])
RECURSIVE sorted(_)
sorted(pairs) ==
    IF Len(pairs) <= 1 THEN pairs
    ELSE InsertLast(sorted(SubSeq(pairs, 1, Len(pairs) - 1)), pairs[Len(pairs)])

NextBestMoveDefaultIn(database, game_state) ==
    IF game_state \notin DOMAIN database
    THEN [status |-> "ok", move |-> game_state]
    ELSE IF Len(database[game_state]) = 0
    THEN [status |-> "ok", move |-> game_state]
    ELSE [status |-> "ok",
          move |-> Last(sorted(moves_and_probs(database[game_state],
                                               CurrentPlayer(game_state))))[1]]

next_best_move_default(game_state) == NextBestMoveDefaultIn(ai_player_database, game_state)

NextBestMoveWorstIn(database, game_state) ==
    IF game_state \notin DOMAIN database
    THEN [status |-> "KeyError", move |-> -1]
    ELSE IF Len(database[game_state]) = 0
    THEN [status |-> "IndexError", move |-> -1]
    ELSE [status |-> "ok",
          move |-> sorted(moves_and_probs(database[game_state],
                                          CurrentPlayer(game_state)))[1][1]]

next_best_move_worst(game_state) == NextBestMoveWorstIn(ai_player_database, game_state)

\* The call returns best_move[0], or raises KeyError at
\* ai_player_database[game_state], or IndexError at moves_sorted[-1]
NextBestMoveIn(database, game_state) ==
    IF game_state \notin DOMAIN database
    THEN [status |-> "KeyError", move |-> -1]
    ELSE IF Len(database[game_state]) = 0
    THEN [status |-> "IndexError", move |-> -1]
    ELSE [status |-> "ok",
          move |-> Last(sorted(moves_and_probs(database[game_state],
                                               CurrentPlayer(game_state))))[1]]

next_best_move(game_state) == NextBestMoveIn(ai_player_database, game_state)

-----------------------------------------------------------------------------
(* Self-play: cell 10 *)

PlayRounds == 9

-----------------------------------------------------------------------------
(* The notebook, cell by cell *)

Init ==
    /\ pc = "enumerate"
    /\ game_round = 0
    /\ num_player_1_wins = 0
    /\ num_player_2_wins = 0
    /\ num_draws = 0
    /\ asked_state = -1
    /\ best_move = [status |-> "none", move |-> -1]
    /\ current_state = EmptyBoard
    /\ play_round = 0
    /\ winner = 0
    /\ rule_state = -1
    /\ rule_moves = <<>>
    /\ rule_player = 0
    /\ rule_won = FALSE

\* one round of "for round in range(9)" of cell 4
ExpandRound ==
    /\ pc = "enumerate"
    /\ game_round < Rounds
    /\ game_round' = game_round + 1
    /\ possible_games' = ExpandRound_list(possible_games)
    /\ pc' = IF game_round + 1 = Rounds THEN "enumerated" ELSE "enumerate"
    /\ UNCHANGED <<num_player_1_wins, num_player_2_wins, num_draws,
                   asked_state, best_move, current_state, play_round, winner,
                   rule_state, rule_moves, rule_player, rule_won>>

\* cell 6
Analyse ==
    /\ pc = "enumerated"
    /\ num_player_1_wins' = NumOutcomes(possible_games, "player 1 wins")
    /\ num_player_2_wins' = NumOutcomes(possible_games, "player 2 wins")
    /\ num_draws' = NumOutcomes(possible_games, "draw")
    /\ pc' = "analysed"
    /\ UNCHANGED <<game_round, asked_state, best_move, current_state,
                   play_round, winner,
                   rule_state, rule_moves, rule_player, rule_won>>

\* count wins and draws for every interim state in every game
CountOutcomes ==
    /\ pc = "analysed"
    /\ pc' = "counted"
    /\ p1_win_counter' = counters_after[1]
    /\ p2_win_counter' = counters_after[2]
    /\ draw_counter' = counters_after[3]
    /\ interim_states' = interim_states_after
    /\ UNCHANGED <<game_round, num_player_1_wins, num_player_2_wins,
                   num_draws, asked_state, best_move, current_state,
                   play_round, winner,
                   rule_state, rule_moves, rule_player, rule_won>>

\* compute outcome probabilities from every possible interim state
ComputeProbabilities ==
    /\ pc = "counted"
    /\ IF ZeroDivision
       THEN pc' = "ZeroDivisionError"
       ELSE /\ pc' = "probabilities"
            /\ outcome_probabilities' = outcome_probabilities_after
    /\ UNCHANGED <<game_round, num_player_1_wins, num_player_2_wins,
                   num_draws, asked_state, best_move, current_state,
                   play_round, winner,
                   rule_state, rule_moves, rule_player, rule_won>>

\* compute data in a form that can be used for an AI player
BuildDatabase ==
    /\ pc = "probabilities"
    /\ IF MissingLookup
       THEN pc' = "KeyError"
       ELSE /\ pc' = "database"
            /\ ai_player_database' = ai_player_database_after
    /\ UNCHANGED <<game_round, num_player_1_wins, num_player_2_wins,
                   num_draws, asked_state, best_move, current_state,
                   play_round, winner,
                   rule_state, rule_moves, rule_player, rule_won>>

\* next_best_move(game_state), called once with any game state
CallNextBestMove ==
    /\ pc = "database"
    /\ \E game_state \in AllBoards :
          /\ asked_state' = game_state
          /\ best_move' = next_best_move(game_state)
    /\ pc' = "advised"
    /\ UNCHANGED <<game_round, num_player_1_wins, num_player_2_wins,
                   num_draws, current_state, play_round, winner,
                   rule_state, rule_moves, rule_player, rule_won>>

\* one iteration of "for round in range(9)" of the game the notebook plays
\* against itself; an exception of next_best_move ends the cell
PlayRound ==
    /\ pc \in {"database", "playing"}
    /\ play_round < PlayRounds
    /\ \E player \in {CurrentPlayer(current_state)},
          result \in {next_best_move(current_state)} :
          /\ asked_state' = current_state
          /\ best_move' = result
          /\ IF result.status # "ok"
             THEN /\ pc' = "play failed"
                  /\ UNCHANGED <<current_state, play_round, winner>>
             ELSE /\ current_state' = result.move
                  /\ play_round' = play_round + 1
                  /\ IF IsWinningState(result.move, player)
                     THEN /\ winner' = player
                          /\ pc' = "played"
                     ELSE /\ winner' = 0
                          /\ pc' = IF play_round + 1 = PlayRounds
                                   THEN "played" ELSE "playing"
    /\ UNCHANGED <<game_round, num_player_1_wins, num_player_2_wins,
                   num_draws, rule_state, rule_moves, rule_player, rule_won>>

Next ==
    \/ ExpandRound
    \/ Analyse
    \/ CountOutcomes
    \/ ComputeProbabilities
    \/ BuildDatabase
    \/ CallNextBestMove
    \/ PlayRound

Spec == Init /\ [][Next]_vars

-----------------------------------------------------------------------------
(* The rules functions called on their own, with any game state *)

InitRules ==
    /\ pc = "rules"
    /\ rule_state \in AllBoards
    /\ rule_moves = <<>>
    /\ rule_player = 0
    /\ rule_won = FALSE
    /\ game_round = 0
    /\ num_player_1_wins = 0
    /\ num_player_2_wins = 0
    /\ num_draws = 0
    /\ asked_state = -1
    /\ best_move = [status |-> "none", move |-> -1]
    /\ current_state = EmptyBoard
    /\ play_round = 0
    /\ winner = 0

CallGetPossibleMoves ==
    /\ pc = "rules"
    /\ rule_moves' = get_possible_moves(rule_state)
    /\ pc' = "moves"
    /\ UNCHANGED <<game_round, num_player_1_wins, num_player_2_wins,
                   num_draws, asked_state, best_move, current_state,
                   play_round, winner, rule_state, rule_player, rule_won>>

\* winning_state(rule_state, player), for either player
CallWinningState ==
    /\ pc = "rules"
    /\ \E player \in 1..2 :
          /\ rule_player' = player
          /\ rule_won' = winning_state(rule_state, player)
    /\ pc' = "won"
    /\ UNCHANGED <<game_round, num_player_1_wins, num_player_2_wins,
                   num_draws, asked_state, best_move, current_state,
                   play_round, winner, rule_state, rule_moves>>

NextRules ==
    \/ CallGetPossibleMoves
    \/ CallWinningState

SpecRules == InitRules /\ [][NextRules]_vars

-----
(* The vocabulary of the claims, stated apart from the code's functions *)

Lines ==
    {<<0, 1, 2>>, <<3, 4, 5>>, <<6, 7, 8>>,
     <<0, 3, 6>>, <<1, 4, 7>>, <<2, 5, 8>>,
     <<0, 4, 8>>, <<2, 4, 6>>}

\* the player has three marks in a line
HasLine(board, player) ==
    \E line \in Lines : \A j \in 1..3 : Cell(board, line[j]) = player

EmptyCells(board) == {i \in CellIndex : Cell(board, i) = 0}

IsFull(board) == EmptyCells(board) = {}

IsTerminal(board) == HasLine(board, 1) \/ HasLine(board, 2) \/ IsFull(board)

Marks(board, player) == {i \in CellIndex : Cell(board, i) = player}

NumMarks(board) == NumCells - Cardinality(EmptyCells(board))

\* the player to move: Player One when both have as many marks
Mover(board) ==
    IF Cardinality(Marks(board, 1)) <= Cardinality(Marks(board, 2)) THEN 1 ELSE 2

\* marks of Player One minus marks of Player Two
MarkDifference(board) ==
    Cardinality(Marks(board, 1)) - Cardinality(Marks(board, 2))

\* the above for every board, entry board + 1 for the board
LineOf ==
    [player \in 1..2 |-> [c \in 1..NumBoards |-> HasLine(c - 1, player)] \o <<>>]

MarkDifferenceOf == [c \in 1..NumBoards |-> MarkDifference(c - 1)] \o <<>>

TerminalOf ==
    [c \in 1..NumBoards |-> LineOf[1][c] \/ LineOf[2][c] \/ IsFull(c - 1)] \o <<>>

NumMarksOf == [c \in 1..NumBoards |-> NumMarks(c - 1)] \o <<>>

MoverOf == [c \in 1..NumBoards |-> Mover(c - 1)] \o <<>>

TerminalBoards == {board \in AllBoards : TerminalOf[board + 1]}

\* the successor that marks cell i for the player to move
Successor(board, i) == SetCell(board, i, MoverOf[board + 1])

Successors(board) == {Successor(board, i) : i \in EmptyCells(board)}

\* 1.0 in the unit of the stored probabilities
One == 10 ^ NumDecimals

\* the stored win probability of the player to move on the board, for the
\* k-th successor entry of the board
MoverWins(board, k) ==
    IF Mover(board) = 1
    THEN ai_player_database[board][k].data.p1_wins
    ELSE ai_player_database[board][k].data.p2_wins

\* the successor entries of the board that tie for the maximum
BestEntries(board) ==
    {k \in 1..Len(ai_player_database[board]) :
        \A j \in 1..Len(ai_player_database[board]) :
            MoverWins(board, j) <= MoverWins(board, k)}

Min(S) == CHOOSE x \in S : \A y \in S : x <= y

Max(S) == CHOOSE x \in S : \A y \in S : y <= x

\* the sum over the cells i, i + 1, ... that are empty on the board of the
\* table's entry of the successor marking the cell
RECURSIVE SumOverSuccessors(_, _, _)
SumOverSuccessors(table, board, i) ==
    IF i >= NumCells THEN 0
    ELSE (IF Cell(board, i) = 0 THEN table[Successor(board, i) + 1] ELSE 0)
            + SumOverSuccessors(table, board, i + 1)

\* for every board with at least `level` marks, the number of distinct ways
\* to play on from it to a terminal board (1 for a terminal board)
ContinuationsLevel(next, level) ==
    [c \in 1..NumBoards |->
        IF NumMarksOf[c] # level THEN next[c]
        ELSE IF TerminalOf[c] THEN 1
        ELSE SumOverSuccessors(next, c - 1, 0)] \o <<>>

RECURSIVE ContinuationsDownTo(_)
ContinuationsDownTo(level) ==
    IF level > NumCells THEN [c \in 1..NumBoards |-> 0] \o <<>>
    ELSE CHOOSE t \in {ContinuationsLevel(next, level) :
                          next \in {ContinuationsDownTo(level + 1)}} : TRUE

Continuations == ContinuationsDownTo(0)

\* play goes from board p to the board by a mark in cell i
IsMove(p, board, i) ==
    /\ ~TerminalOf[p + 1]
    /\ Cell(p, i) = 0
    /\ Successor(p, i) = board

\* the sum over the cells i, i + 1, ... that are marked on the board of the
\* table's entry of the board that play leaves by a mark in the cell
RECURSIVE SumOverPredecessors(_, _, _)
SumOverPredecessors(table, board, i) ==
    IF i >= NumCells THEN 0
    ELSE (IF IsMove(SetCell(board, i, 0), board, i)
          THEN table[SetCell(board, i, 0) + 1] ELSE 0)
            + SumOverPredecessors(table, board, i + 1)

\* for every board with at most `level` marks, the number of move orders by
\* which play from the empty board reaches it
WaysLevel(prev, level) ==
    [c \in 1..NumBoards |->
        IF NumMarksOf[c] # level THEN prev[c]
        ELSE IF level = 0 THEN 1
        ELSE SumOverPredecessors(prev, c - 1, 0)] \o <<>>

RECURSIVE WaysUpTo(_)
WaysUpTo(level) ==
    IF level < 0 THEN [c \in 1..NumBoards |-> 0] \o <<>>
    ELSE CHOOSE t \in {WaysLevel(prev, level) :
                          prev \in {WaysUpTo(level - 1)}} : TRUE

Ways == WaysUpTo(NumCells)

SuccessorsOf == [c \in 1..NumBoards |-> Successors(c - 1)] \o <<>>

\* the empty cell of the board with k - 1 empty cells before it
EmptyCell(board, k) ==
    CHOOSE i \in EmptyCells(board) :
        Cardinality({j \in EmptyCells(board) : j < i}) = k - 1

\* the number of paths through the board that the player wins
WinTally(board, player) ==
    IF player = 1 THEN CounterGet(p1_win_counter, board)
    ELSE CounterGet(p2_win_counter, board)

\* the boards that play from the empty board reaches
Reachable == {board \in AllBoards : Ways[board + 1] > 0}

\* the games of the list with len boards, and those of them that end in a
\* terminal board; a game of one length is in the list after a round exactly
\* when it is among the games of that length.  The games are taken from the
\* last of the list to the first, the order in which a set of them is built
\* fastest.
GamesOfLength(games, len) ==
    {games[Len(games) + 1 - k] :
        k \in {i \in 1..Len(games) : Len(games[Len(games) + 1 - i]) = len}}

FrozenOfLength(games, len) ==
    {games[Len(games) + 1 - k] :
        k \in {i \in 1..Len(games) :
                  /\ Len(games[Len(games) + 1 - i]) = len
                  /\ TerminalOf[Last(games[Len(games) + 1 - i]) + 1]}}

\* the sum of the three tallies of a board
Tally(board) ==
    CounterGet(p1_win_counter, board) + CounterGet(p2_win_counter, board)
        + CounterGet(draw_counter, board)

-----------------------------------------------------------------------------
(* C1 *)

\* C1: from the single path holding only the empty board, the 9 expansion
\* rounds end with exactly 255,168 game paths.
C1_NumberOfGames ==
    game_round = Rounds => Len(possible_games) = 255168

C1_Enumerated ==
    /\ pc = "enumerated"
    /\ game_round = Rounds
    /\ possible_games[1][1] = EmptyBoard
    /\ Len(possible_games) > 1

-----------------------------------------------------------------------------
(* C2 *)

\* C2: over all enumerated game paths, classified by their final board, there
\* are exactly 131,184 wins of Player One, 77,904 wins of Player Two and
\* 46,080 draws.
C2_OutcomeCounts ==
    pc \notin {"enumerate", "enumerated"} =>
        /\ num_player_1_wins = 131184
        /\ num_player_2_wins = 77904
        /\ num_draws = 46080

C2_Analysed ==
    /\ pc = "analysed"
    /\ num_player_1_wins + num_player_2_wins + num_draws = Len(possible_games)

-----------------------------------------------------------------------------
(* C3 *)

\* C3: every key of ai_player_database is a non-terminal board: no key has a
\* winning line for either player and no key is a full board.
C3_KeysNonTerminal ==
    pc = "database" =>
        \A game_state \in DOMAIN ai_player_database : ~IsTerminal(game_state)

-----------------------------------------------------------------------------
(* C4 *)

\* C4 as stated: get_possible_moves returns the empty sequence for every
\* terminal board, won with empty cells remaining or full.
C4_EmptyForTerminal ==
    pc = "moves" /\ IsTerminal(rule_state) => rule_moves = <<>>

\* C4 as amended: get_possible_moves returns one successor per empty cell of
\* the board, whether or not a player has a winning line on it; it returns
\* the empty sequence exactly for the boards with no empty cell.
C4_OneMovePerEmptyCell ==
    pc = "moves" =>
        /\ Len(rule_moves) = Cardinality(EmptyCells(rule_state))
        /\ rule_moves = <<>> <=> IsFull(rule_state)

C4_MovesOnWonBoard ==
    /\ pc = "moves"
    /\ rule_state = Board(120120100)
    /\ HasLine(rule_state, 1)
    /\ Len(rule_moves) = 4

-----------------------------------------------------------------------------
(* C5 *)

\* C5 as stated: when two or more successors of a board tie for the maximum
\* win probability of the player to move, next_best_move returns the tied
\* successor whose newly marked cell has the lowest index, the first of the
\* tied successors in the order of get_possible_moves.
C5_FirstOfTied ==
    (/\ pc = "advised"
     /\ best_move.status = "ok"
     /\ Cardinality(BestEntries(asked_state)) >= 2)
        => best_move.move
               = ai_player_database[asked_state][Min(BestEntries(asked_state))].move

\* C5 as amended: when two or more successors tie for the maximum,
\* next_best_move returns the tied successor whose newly marked cell has the
\* highest index, the last of the tied successors in the order of
\* get_possible_moves.
C5_LastOfTied ==
    (/\ pc = "advised"
     /\ best_move.status = "ok"
     /\ Cardinality(BestEntries(asked_state)) >= 2)
        => best_move.move
               = ai_player_database[asked_state][Max(BestEntries(asked_state))].move

C5_CornersTie ==
    /\ pc = "advised"
    /\ asked_state = Board(10000)
    /\ Cardinality(BestEntries(asked_state)) = 4
    /\ best_move = [status |-> "ok", move |-> Board(10002)]

-----------------------------------------------------------------------------
(* C6 *)

\* C6: for every board that is a key of ai_player_database with at least one
\* successor, next_best_move returns one of the board's successors, and no
\* other successor has a higher win probability for the player to move.
C6_BestMoveIsMaximal ==
    (/\ pc = "advised"
     /\ asked_state \in DOMAIN ai_player_database
     /\ Len(ai_player_database[asked_state]) > 0)
        => /\ best_move.status = "ok"
           /\ best_move.move \in Successors(asked_state)
           /\ \E k \in BestEntries(asked_state) :
                 ai_player_database[asked_state][k].move = best_move.move

C6_PlayerTwoAdvised ==
    /\ pc = "advised"
    /\ asked_state = Board(10102)
    /\ Mover(asked_state) = 2
    /\ best_move = [status |-> "ok", move |-> Board(12102)]

-----------------------------------------------------------------------------
(* C7 *)

\* C7: in every expansion round, each path whose last board is already
\* terminal is carried forward unchanged: it is in the collection after the
\* round with the same boards, so no path is lost between rounds.
C7_FrozenCarriedForward ==
    [][pc = "enumerate" =>
          /\ \A len \in 1..(NumCells + 1) :
                Cardinality(GamesOfLength(possible_games', len)
                                \cup FrozenOfLength(possible_games, len))
                    = Cardinality(GamesOfLength(possible_games', len))
          /\ Len(possible_games') >= Len(possible_games)]_vars

C7_WonGameCarried ==
    /\ pc = "enumerate"
    /\ game_round = 6
    /\ \E k \in 1..Len(possible_games) :
          /\ Len(possible_games[k]) = 6
          /\ HasLine(Last(possible_games[k]), 1)

-----------------------------------------------------------------------------
(* C9 *)

\* C9 as stated: for every board recorded by the aggregator, the sum of its
\* three tallies equals the number of distinct terminal continuations
\* reachable from the board.
C9_TallyIsContinuations ==
    pc = "counted" =>
        \A board \in interim_states : Tally(board) = Continuations[board + 1]

\* C9 as amended: the aggregator records the boards that play from the empty
\* board reaches, and the sum of the three tallies of a recorded board equals
\* the number of enumerated game paths through the board, which is the
\* number of move orders reaching the board times the number of distinct
\* terminal continuations from it.
C9_TallyIsPathsThrough ==
    pc = "counted" =>
        /\ interim_states = Reachable
        /\ \A board \in interim_states :
              Tally(board) = Ways[board + 1] * Continuations[board + 1]

C9_BoardReachedTwice ==
    /\ pc = "counted"
    /\ Board(101020000) \in interim_states
    /\ Ways[Board(101020000) + 1] = 2
    /\ Tally(Board(101020000)) = 2 * Continuations[Board(101020000) + 1]

-----------------------------------------------------------------------------
(* C10 *)

\* C10: for every successor entry stored in ai_player_database, the
\* three stored probabilities p1_wins + p2_wins + draw sum to 1.0.
C10_SumIsOne ==
    pc = "database" =>
        \A board \in DOMAIN ai_player_database :
            \A k \in 1..Len(ai_player_database[board]) :
                ai_player_database[board][k].data.p1_wins
                    + ai_player_database[board][k].data.p2_wins
                    + ai_player_database[board][k].data.draw = One

-----------------------------------------------------------------------------
(* C8 *)

\* C8: after the 9 expansion rounds the last board of every path is terminal:
\* it has a winning line for one of the players or has no empty cell.
C8_AllPathsTerminal ==
    pc = "enumerated" =>
        \A k \in 1..Len(possible_games) : Last(possible_games[k]) \in TerminalBoards

C8_FullBoardReached ==
    /\ pc = "enumerated"
    /\ \E k \in 1..Len(possible_games) :
          /\ IsFull(Last(possible_games[k]))
          /\ ~HasLine(Last(possible_games[k]), 1)
          /\ ~HasLine(Last(possible_games[k]), 2)
    /\ \E k \in 1..Len(possible_games) :
          /\ HasLine(Last(possible_games[k]), 2)
          /\ ~IsFull(Last(possible_games[k]))

-----------------------------------------------------------------------------
(* C11 *)

\* C11: next_best_move called with a terminal board (won by either player,
\* or full without a line) or with a board that play from the empty board
\* does not reach ends in an error and returns no move.
C11_ErrorOnTerminalOrUnreachable ==
    (/\ pc = "advised"
     /\ TerminalOf[asked_state + 1] \/ asked_state \notin Reachable)
        => /\ best_move.status \in {"KeyError", "IndexError"}
           /\ best_move.move = -1

C11_DrawnBoardAsked ==
    /\ pc = "advised"
    /\ asked_state = Board(211122211)
    /\ asked_state \in Reachable
    /\ IsFull(asked_state)
    /\ best_move = [status |-> "IndexError", move |-> -1]

-----------------------------------------------------------------------------
(* C12 *)

\* C12: every non-terminal board that play from the empty board reaches is a
\* key of ai_player_database, and its entry holds exactly one record for each
\* successor of the board.
C12_ReachableNonTerminalAreKeys ==
    pc = "database" =>
        \A board \in Reachable \ TerminalBoards :
            /\ board \in DOMAIN ai_player_database
            /\ Len(ai_player_database[board]) = Cardinality(SuccessorsOf[board + 1])
            /\ {ai_player_database[board][k].move :
                   k \in 1..Len(ai_player_database[board])} = SuccessorsOf[board + 1]

C12_CentreIsKey ==
    /\ pc = "database"
    /\ Board(10000) \in Reachable \ TerminalBoards
    /\ Len(ai_player_database[Board(10000)]) = 8

-----------------------------------------------------------------------------
(* C13 *)

\* C13: when the third loop of cell 7 starts, every successor of every
\* recorded board without a winning line has a record in
\* outcome_probabilities, so the loop never ends in a KeyError.
C13_NoMissingLookup ==
    /\ pc # "KeyError"
    /\ pc = "probabilities" =>
          \A board \in interim_states :
              ~(LineOf[1][board + 1] \/ LineOf[2][board + 1])
                  => SuccessorsOf[board + 1] \subseteq DOMAIN outcome_probabilities

C13_DatabaseBuilt ==
    /\ pc = "database"
    /\ Len(ai_player_database[EmptyBoard]) = NumCells
    /\ \A k \in 1..NumCells :
          ai_player_database[EmptyBoard][k].move \in DOMAIN outcome_probabilities

-----------------------------------------------------------------------------
(* C14 *)

\* C14: every enumerated game starts with the empty board, and each later
\* board is the board before it with one empty cell marked by the player to
\* move, who is Player One for the 1st, 3rd, ... and Player Two for the 2nd,
\* 4th, ... move.
C14_PathsAlternate ==
    pc \in {"enumerate", "enumerated"} =>
        \A g \in 1..Len(possible_games) :
            /\ possible_games[g][1] = EmptyBoard
            /\ \A k \in 1..(Len(possible_games[g]) - 1) :
                  /\ MoverOf[possible_games[g][k] + 1] = 2 - (k % 2)
                  /\ possible_games[g][k + 1]
                        \in SuccessorsOf[possible_games[g][k] + 1]

C14_FirstGame ==
    /\ pc = "enumerated"
    /\ possible_games[1] =
          <<EmptyBoard, Board(100000000), Board(120000000), Board(121000000),
            Board(121200000), Board(121210000), Board(121212000),
            Board(121212100)>>

-----------------------------------------------------------------------------
(* C15 *)

\* C15: on every board of every game in possible_games, after every round of
\* the enumeration, the number of marks of Player One minus the number of
\* marks of Player Two is 0 or 1.
C15_MarkDifferenceZeroOrOne ==
    pc \in {"enumerate", "enumerated"} =>
        \A g \in 1..Len(possible_games) :
            \A k \in 1..Len(possible_games[g]) :
                MarkDifferenceOf[possible_games[g][k] + 1] \in {0, 1}

C15_OneAhead ==
    /\ pc = "enumerate"
    /\ game_round = 5
    /\ Last(possible_games[1]) = Board(121210000)
    /\ MarkDifference(Last(possible_games[1])) = 1

-----------------------------------------------------------------------------
(* C16 *)

\* C16: for every board, get_possible_moves returns one successor for each
\* empty cell, in ascending order of the cell's index, and each successor is
\* the board with that one cell marked by the player to move.
C16_SuccessorsInCellOrder ==
    pc = "moves" =>
        /\ Len(rule_moves) = Cardinality(EmptyCells(rule_state))
        /\ \A k \in 1..Len(rule_moves) :
              rule_moves[k] =
                  SetCell(rule_state, EmptyCell(rule_state, k), Mover(rule_state))

C16_ExampleInOrder ==
    /\ pc = "moves"
    /\ rule_state = Board(120120100)
    /\ rule_moves = <<Board(122120100), Board(120122100),
                      Board(120120120), Board(120120102)>>

-----------------------------------------------------------------------------
(* C17 *)

\* C17: of the 9 first moves, the centre 000010000 has a strictly higher
\* stored win probability of Player One than each of the other 8, and
\* next_best_move of the empty board returns 000010000.
C17_CentreIsBest ==
    /\ pc = "database" =>
          /\ {ai_player_database[EmptyBoard][k].move : k \in 1..NumCells}
                = Successors(EmptyBoard)
          /\ \A k \in 1..NumCells :
                ai_player_database[EmptyBoard][k].move # Board(10000)
                    => ai_player_database[EmptyBoard][k].data.p1_wins
                           < outcome_probabilities[Board(10000)].p1_wins
    /\ (pc = "advised" /\ asked_state = EmptyBoard)
          => best_move = [status |-> "ok", move |-> Board(10000)]

C17_CentreAdvised ==
    /\ pc = "advised"
    /\ asked_state = EmptyBoard
    /\ best_move.move = Board(10000)
    /\ outcome_probabilities[Board(10000)].p1_wins = 60482

-----------------------------------------------------------------------------
(* C18 *)

\* C18: for every board and each player, winning_state is true exactly when
\* one of the 8 lines has all three cells with the player's mark.
C18_WinIffLine ==
    pc = "won" => rule_won = HasLine(rule_state, rule_player)

C18_DiagonalWin ==
    /\ pc = "won"
    /\ rule_state = Board(120210001)
    /\ rule_player = 1
    /\ rule_won

-----------------------------------------------------------------------------
(* C19 *)

\* C19: for every key of ai_player_database on which the player to move has
\* a move that completes a line, next_best_move returns a successor that the
\* player wins in every enumerated game through it: its win tally is its
\* total tally and its stored win probability is 1.
C19_TakesImmediateWin ==
    (/\ pc = "advised"
     /\ asked_state \in DOMAIN ai_player_database
     /\ \E s \in SuccessorsOf[asked_state + 1] :
           LineOf[MoverOf[asked_state + 1]][s + 1])
        => /\ best_move.status = "ok"
           /\ best_move.move \in SuccessorsOf[asked_state + 1]
           /\ WinTally(best_move.move, MoverOf[asked_state + 1])
                 = Tally(best_move.move)
           /\ WinProbability(outcome_probabilities[best_move.move],
                             MoverOf[asked_state + 1]) = One

C19_WinTaken ==
    /\ pc = "advised"
    /\ asked_state = Board(12102)
    /\ best_move = [status |-> "ok", move |-> Board(1012102)]
    /\ HasLine(Board(1012102), 1)

-----------------------------------------------------------------------------
(* C20 *)

\* C20: no board of any game in possible_games has a line of Player One and
\* a line of Player Two, so game_outcome, which checks Player One first,
\* says "player 2 wins" exactly for the games that end with a line of
\* Player Two.
C20_NoDoubleWin ==
    /\ pc \in {"enumerate", "enumerated"} =>
          \A g \in 1..Len(possible_games) :
              \A k \in 1..Len(possible_games[g]) :
                  ~(/\ LineOf[1][possible_games[g][k] + 1]
                    /\ LineOf[2][possible_games[g][k] + 1])
    /\ pc = "enumerated" =>
          \A g \in 1..Len(possible_games) :
              (game_outcome(possible_games[g]) = "player 2 wins")
                  = LineOf[2][Last(possible_games[g]) + 1]

C20_PlayerTwoWinsLate ==
    /\ pc = "enumerated"
    /\ \E g \in 1..Len(possible_games) :
          /\ Len(possible_games[g]) = NumCells
          /\ game_outcome(possible_games[g]) = "player 2 wins"
          /\ ~HasLine(Last(possible_games[g]), 1)

-----------------------------------------------------------------------------
(* C21 *)

\* the boards of the game the notebook plays against itself
SelfPlayTrace ==
    <<Board(10000), Board(10002), Board(10102), Board(12102), Board(1012102)>>

\* C21: the game that next_best_move plays against itself from the empty
\* board visits 000010000, 000010002, 000010102, 000012102, 001012102 in
\* that order and stops with the win of Player One on the fifth move, and
\* next_best_move is never called on a terminal board in it.
C21_SelfPlayTrace ==
    /\ pc # "play failed"
    /\ pc \in {"playing", "played"} =>
          /\ play_round \in 1..Len(SelfPlayTrace)
          /\ current_state = SelfPlayTrace[play_round]
          /\ best_move = [status |-> "ok", move |-> current_state]
          /\ asked_state =
                IF play_round = 1 THEN EmptyBoard ELSE SelfPlayTrace[play_round - 1]
          /\ ~IsTerminal(asked_state)
          /\ (pc = "played") = (play_round = Len(SelfPlayTrace))
          /\ winner = IF pc = "played" THEN 1 ELSE 0

C21_PlayerOneWinsOnFifthMove ==
    /\ pc = "played"
    /\ play_round = 5
    /\ current_state = Board(1012102)
    /\ HasLine(current_state, 1)
    /\ winner = 1

=============================================================================
